---- MODULE Spec2Model ----
(***************************************************************************)
(* chaos-viz: the two p5 engines of src/sketches/wrap.ts.                  *)
(*                                                                         *)
(*   mountIteration   the live iteration / period-detection engine         *)
(*   mountBifurcation the parameter sweep with power-of-two period search  *)
(*                                                                         *)
(* Coordinates are carried on an integer grid.  The engines only ever      *)
(* compare a coordinate, or a difference of two coordinates, with a fixed  *)
(* threshold, so the thresholds are given on the same grid and keep the    *)
(* comparison operators of the source (strict / non-strict).               *)
(* MapPage shows one view at a time, so a behaviour has one engine         *)
(* mounted: Spec and PlaybackSpec run the iteration engine, SweepSpec the  *)
(* bifurcation engine.                                                     *)
(***************************************************************************)
EXTENDS Integers, Sequences, FiniteSets, TLC

VARIABLES
  \* ---- mountIteration closure ----
  iterates, lag, speed, mapParams,
  orbit, icX, icY, curX, curY, curStep, waiting, diverged,
  detectedPeriod, cyclePoints, historyX, historyY,
  looping,              \* p5 draw loop: instance.loop() / p.noLoop()
  playbackStep,         \* step shown by the timeline slider, NULL when live
  resumeIterationAfterExport,  \* MapPage: was the run animating before export
  \* ---- history variables (not program state) ----
  trail,                \* every state the run has produced, ic first
  lastOp,               \* the handler that ran last
  prevPhase,            \* the engine phase that handler found
  sweepLog,             \* per swept a: the locals diverged, found, detectedPeriod
  \* ---- mountBifurcation closure ----
  paramMin, paramMax, dParam, N, ic, bifParams,
  points, periodDoublings,
  sweepA, bifPc,        \* loop variable a of compute() and its position
  \* ---- utils/cobweb.ts, as the cobweb components use it ----
  fn,                   \* what compileExpr returned for the expression typed
  call,                 \* the last helper call on fn and its outcome
  \* ---- uiua/wasm.ts ----
  initialized,          \* let initialized = false
  instantiations,       \* history: how often initWasm() has been invoked
  caller                \* per component: where its await init() stands

iterVars == <<iterates, lag, speed, mapParams, orbit, icX, icY, curX, curY,
              curStep, waiting, diverged, detectedPeriod, cyclePoints,
              historyX, historyY, looping>>
viewVars == <<playbackStep, resumeIterationAfterExport>>
histVars == <<trail, lastOp, prevPhase>>
bifVars == <<paramMin, paramMax, dParam, N, ic, bifParams, points,
             periodDoublings, sweepA, bifPc>>
wasmVars == <<initialized, instantiations, caller>>
utilVars == <<fn, call, wasmVars>>
vars == <<iterVars, viewVars, histVars, bifVars, sweepLog, utilVars>>

----------------------------------------------------------------------------
\* Program constants (grid units for the three thresholds).

\* |x| > 1e10 : divergence threshold of both engines
Escape == 10000
\* transient steps kept out of the history
TRANSIENT == 500
\* live detector: reject when a difference is > PERIOD_TOL
PERIOD_TOL == 1
\* live detector: largest candidate period
MAX_PERIOD_CHECK == 128
\* detectedPeriod: number | null
NULL == -1
\* sweep: const S = 12, periods 2^0 .. 2^S
S == 12
\* sweep: const tol = 1e-5, a match is a difference < tol
tol == 2
\* sweep: at most 256 states back from state N are plotted
OrbitCap == 256
\* henon.iterationDefaults
DefaultIterates == 1000
DefaultLag == 50

----------------------------------------------------------------------------
\* Bounds of the inputs.

\* initial conditions are drawn from -MaxIC..MaxIC x 0..MaxIC
MaxIC == 1
\* the slider is dragged to within MaxScrub steps of either end
MaxScrub == 1
\* the sweep range lies within 0..MaxParam
MaxParam == 3
\* init() is called by up to MaxComponents components
MaxComponents == 4
\* the cobweb is drawn with up to MaxCobweb iterations
MaxCobweb == 4
\* a sweep that does not end is followed until it has emitted MaxEmitted
\* points or its loop variable has left -MaxParam..MaxParam
MaxEmitted == 6

\* The two non-finite numbers a step function can return.  They stand
\* outside the grid and no arithmetic is done on them: NaN fails every
\* comparison, Infinity exceeds every threshold.
NaN == -2000000001
Infinity == 2000000000

Abs(v) == IF v < 0 THEN -v ELSE v
Min(m, n) == IF m < n THEN m ELSE n

ICs == (-MaxIC .. MaxIC) \X (0 .. MaxIC)

\* Map definitions handed to the engines: the registered Henon map and two
\* further MapDefinition.step instances (a translation and a reflection).
MapParamSets ==
  { [kind |-> "henon", a |-> 1, b |-> -1],
    [kind |-> "henon", a |-> 1, b |-> 0],
    [kind |-> "henon", a |-> 3, b |-> 0],
    [kind |-> "drift", a |-> 2, b |-> 0],
    [kind |-> "drift", a |-> 0, b |-> 11],
    [kind |-> "flip",  a |-> 4, b |-> 0] }

\* iterates: the default, and a budget that ends six steps past the transient
IteratesSet == {TRANSIENT + 6, DefaultIterates}
LagSet == {2, DefaultLag}
SpeedSet == {50, 300}

\* step: (x, y, params) => [x', y']
\* poleX and poleY walk x up by one and have a pole at x = a, where they
\* return the non-finite number b in x, resp. in y; NaN + 1 is NaN.
MapStep(x, y, p) ==
  CASE p.kind = "henon" -> <<p.a - x * x + p.b * y, x>>
    [] p.kind = "drift" -> <<x + p.a, y + p.b>>
    [] p.kind = "flip"  -> <<p.a - x, p.b - y>>
    [] p.kind = "poleX" ->
         IF x = NaN THEN <<NaN, y>>
         ELSE IF x = p.a THEN <<p.b, y>> ELSE <<x + 1, y>>
    [] p.kind = "poleY" -> <<x + 1, IF x = p.a THEN p.b ELSE y>>

----------------------------------------------------------------------------
\* detectPeriod()
\* The for loops of the source are unrolled by halving the index range, left
\* half first: the iterations run in the source's order and a break leaves
\* the remaining iterations without effect.

\* Math.abs(u - v) > t, which is false when u or v is NaN
FartherThan(u, v, t) == u # NaN /\ v # NaN /\ Abs(u - v) > t

\* Math.abs(u - v) < t, which is false when u or v is NaN
CloserThan(u, v, t) == u # NaN /\ v # NaN /\ Abs(u - v) < t

\* variant of MatchAt: rejects a difference of exactly PERIOD_TOL
MatchAtStrict(hx, hy, p, i) ==
  LET idx == Len(hx) - 1 - i
      prevIdx == idx - p
  IN IF prevIdx < 0 THEN FALSE
     ELSE ~(FartherThan(hx[idx + 1], hx[prevIdx + 1], PERIOD_TOL - 1)
            \/ FartherThan(hy[idx + 1], hy[prevIdx + 1], PERIOD_TOL - 1))

\* one iteration of the inner loop, FALSE when it sets match = false
MatchAt(hx, hy, p, i) ==
  LET idx == Len(hx) - 1 - i
      prevIdx == idx - p
  IN IF prevIdx < 0 THEN FALSE
     ELSE ~(FartherThan(hx[idx + 1], hx[prevIdx + 1], PERIOD_TOL)
            \/ FartherThan(hy[idx + 1], hy[prevIdx + 1], PERIOD_TOL))

\* inner loop: for (let i = lo; i < hi; i++), break at the first mismatch
RECURSIVE MatchLoop(_, _, _, _, _)
MatchLoop(hx, hy, p, lo, hi) ==
  IF lo >= hi THEN TRUE
  ELSE IF hi = lo + 1 THEN MatchAt(hx, hy, p, lo)
  ELSE CHOOSE r \in
         { MatchLoop(hx, hy, p, lo, mid) /\ MatchLoop(hx, hy, p, mid, hi) :
             mid \in {(lo + hi) \div 2} } : TRUE

\* const checks = Math.min(p * 2, len - p)
Checks(len, p) == Min(p * 2, len - p)

\* outer loop: for (let p = lo; p <= hi; p++), return at the first match;
\* 0 when the loop runs out
RECURSIVE PeriodLoop(_, _, _, _)
PeriodLoop(hx, hy, lo, hi) ==
  IF lo > hi THEN 0
  ELSE IF lo = hi
       THEN IF MatchLoop(hx, hy, lo, 0, Checks(Len(hx), lo)) THEN lo ELSE 0
  ELSE CHOOSE r \in
         { IF b.first # 0 THEN b.first
           ELSE PeriodLoop(hx, hy, b.mid + 1, b.hi) :
             b \in { [mid |-> mid, hi |-> hi,
                      first |-> PeriodLoop(hx, hy, lo, mid)] :
                       mid \in {(lo + hi) \div 2} } } : TRUE

\* p <= Math.min(MAX_PERIOD_CHECK, Math.floor(len / 2))
MaxCandidate(len) == Min(MAX_PERIOD_CHECK, len \div 2)

\* variant of CycleOf: copies the first p entries of the history
CycleOfFromStart(hx, hy, p) ==
  [i \in 1 .. p |-> [x |-> hx[i], y |-> hy[i]]]

\* the cycle copied out of the history on a match
CycleOf(hx, hy, p) ==
  [i \in 1 .. p |-> [x |-> hx[Len(hx) - p + i], y |-> hy[Len(hx) - p + i]]]

detectPeriod(hx, hy, dp, cp) ==
  IF Len(hx) < 2 THEN [detectedPeriod |-> dp, cyclePoints |-> cp]
  ELSE CHOOSE r \in
         { IF p # 0
           THEN [detectedPeriod |-> p, cyclePoints |-> CycleOf(hx, hy, p)]
           ELSE [detectedPeriod |-> NULL, cyclePoints |-> cp] :
             p \in {PeriodLoop(hx, hy, 1, MaxCandidate(Len(hx)))} } : TRUE

----------------------------------------------------------------------------
\* p.draw, iterate block

\* Math.abs(v) > 1e10, which is false when v is NaN
Exceeds(v) == v # NaN /\ Abs(v) > Escape

\* variant of Escaped: looks at x only
EscapedXOnly(x, y) == Exceeds(x)

\* if (Math.abs(curX) > 1e10 || Math.abs(curY) > 1e10)
Escaped(x, y) == Exceeds(x) \/ Exceeds(y)

\* variant of PushOrbit: a full window drops the state being appended
PushOrbitDropsNewest(o, x, y) ==
  LET pushed == Append(o, [x |-> x, y |-> y])
  IN IF Len(pushed) > lag THEN o ELSE pushed

\* orbit.push(...); if (orbit.length > lag) orbit.shift()
PushOrbit(o, x, y) ==
  LET pushed == Append(o, [x |-> x, y |-> y])
  IN IF Len(pushed) > lag THEN Tail(pushed) ELSE pushed

\* variant of PushHistory: records the state of step TRANSIENT as well
PushHistoryFromTransient(h, step, v) ==
  IF step >= TRANSIENT THEN Append(h, v) ELSE h

\* if (curStep > TRANSIENT) history.push(v)
PushHistory(h, step, v) == IF step > TRANSIENT THEN Append(h, v) ELSE h

\* variant of AdvanceStep: the application that diverges is not counted
AdvanceStepUncounted(s) ==
  IF s.curStep >= iterates \/ s.diverged THEN s
  ELSE LET n == MapStep(s.curX, s.curY, mapParams)
           s1 == [s EXCEPT !.curX = n[1], !.curY = n[2],
                           !.trail = Append(@, <<n[1], n[2]>>)]
       IN IF Escaped(n[1], n[2])
          THEN [s1 EXCEPT !.diverged = TRUE]
          ELSE [s1 EXCEPT !.curStep = @ + 1,
                          !.orbit = PushOrbit(@, n[1], n[2]),
                          !.historyX = PushHistory(@, s.curStep + 1, n[1]),
                          !.historyY = PushHistory(@, s.curStep + 1, n[2])]

\* one iteration of for (let i = 0; i < speed; i++); the record is left as it
\* is once the loop has hit a break
AdvanceStep(s) ==
  IF s.curStep >= iterates \/ s.diverged THEN s
  ELSE CHOOSE r \in
         { LET s1 == [s EXCEPT !.curX = n[1], !.curY = n[2],
                               !.curStep = @ + 1,
                               !.trail = Append(@, <<n[1], n[2]>>)]
           IN IF Escaped(n[1], n[2])
              THEN [s1 EXCEPT !.diverged = TRUE]
              ELSE [s1 EXCEPT !.orbit = PushOrbit(@, n[1], n[2]),
                              !.historyX = PushHistory(@, s.curStep + 1, n[1]),
                              !.historyY = PushHistory(@, s.curStep + 1, n[2])] :
             n \in {MapStep(s.curX, s.curY, mapParams)} } : TRUE

\* for (let i = 0; i < speed; i++): n iterations of the loop, none once
\* if (curStep >= iterates || diverged) break has been taken
RECURSIVE AdvanceLoop(_, _)
AdvanceLoop(s, n) ==
  IF n <= 0 \/ s.curStep >= iterates \/ s.diverged THEN s
  ELSE IF n = 1 THEN AdvanceStep(s)
  ELSE CHOOSE r \in { AdvanceLoop(h[1], h[2]) :
                       h \in {<<AdvanceLoop(s, n \div 2), n - n \div 2>>} } :
         TRUE

Phase ==
  IF waiting THEN "waiting"
  ELSE IF diverged THEN "diverged"
  ELSE IF curStep >= iterates THEN "completed"
  ELSE "running"

\* variant of Iterated: a tick that the budget would cut short is skipped
IteratedWholeTicksOnly(s0) ==
  IF ~s0.diverged /\ s0.curStep + speed <= iterates
  THEN AdvanceLoop(s0, speed) ELSE s0

\* if (!diverged && curStep < iterates) { for ... }
Iterated(s0) ==
  IF ~s0.diverged /\ s0.curStep < iterates THEN AdvanceLoop(s0, speed) ELSE s0

\* variant of FrameDetect: detection is attempted again after it has
\* succeeded
FrameDetectEveryTick(ran, s, dp, cp) ==
  IF ran /\ Len(s.historyX) > MAX_PERIOD_CHECK * 3
  THEN detectPeriod(s.historyX, s.historyY, dp, cp)
  ELSE [detectedPeriod |-> dp, cyclePoints |-> cp]

\* try to detect period every frame: inside the iterate block only
FrameDetect(ran, s, dp, cp) ==
  IF ran /\ dp = NULL /\ Len(s.historyX) > MAX_PERIOD_CHECK * 3
  THEN detectPeriod(s.historyX, s.historyY, dp, cp)
  ELSE [detectedPeriod |-> dp, cyclePoints |-> cp]

\* else if (curStep >= iterates), reached when the run has not diverged
Finished(s) == ~s.diverged /\ s.curStep >= iterates

\* final period detection attempt
FinalDetect(s, d) ==
  IF Finished(s) /\ d.detectedPeriod = NULL /\ Len(s.historyX) > 2
  THEN detectPeriod(s.historyX, s.historyY, d.detectedPeriod, d.cyclePoints)
  ELSE d

\* p.draw of the iteration sketch, one animation frame
Draw ==
  /\ looping
  /\ lastOp' = "draw"
  /\ prevPhase' = Phase
  /\ UNCHANGED <<iterates, lag, speed, mapParams, icX, icY, waiting>>
  /\ UNCHANGED <<viewVars, bifVars, sweepLog, utilVars>>
  /\ IF waiting
     THEN UNCHANGED <<orbit, curX, curY, curStep, diverged, detectedPeriod,
                      cyclePoints, historyX, historyY, looping, trail>>
     ELSE
       LET s0 == [curX |-> curX, curY |-> curY, curStep |-> curStep,
                  diverged |-> diverged, orbit |-> orbit,
                  historyX |-> historyX, historyY |-> historyY,
                  trail |-> trail]
           ran == ~diverged /\ curStep < iterates
       IN \E s \in {Iterated(s0)} :
          \E f \in {FrameDetect(ran, s, detectedPeriod, cyclePoints)} :
          \E d \in {FinalDetect(s, f)} :
            /\ curX' = s.curX
            /\ curY' = s.curY
            /\ curStep' = s.curStep
            /\ diverged' = s.diverged
            /\ orbit' = s.orbit
            /\ historyX' = s.historyX
            /\ historyY' = s.historyY
            /\ trail' = s.trail
            /\ detectedPeriod' = d.detectedPeriod
            /\ cyclePoints' = d.cyclePoints
            /\ looping' = IF Finished(s) THEN FALSE ELSE looping

\* variant of beginOrbit: leaves the current state where the last run ended
beginOrbitStaleState(x, y) ==
  /\ icX' = x
  /\ icY' = y
  /\ orbit' = <<[x |-> x, y |-> y]>>
  /\ historyX' = <<>>
  /\ historyY' = <<>>
  /\ detectedPeriod' = NULL
  /\ cyclePoints' = <<>>
  /\ curStep' = 0
  /\ waiting' = FALSE
  /\ diverged' = FALSE
  /\ looping' = TRUE
  /\ trail' = <<<<x, y>>>>
  /\ playbackStep' = NULL
  /\ lastOp' = "seed"
  /\ prevPhase' = Phase
  /\ UNCHANGED <<curX, curY>>
  /\ UNCHANGED <<iterates, lag, speed, mapParams, bifVars, sweepLog, utilVars,
                 resumeIterationAfterExport>>

\* variant of beginOrbit: keeps the history and cycle of the previous run
beginOrbitKeepsHistory(x, y) ==
  /\ icX' = x
  /\ icY' = y
  /\ curX' = x
  /\ curY' = y
  /\ orbit' = <<[x |-> x, y |-> y]>>
  /\ curStep' = 0
  /\ waiting' = FALSE
  /\ diverged' = FALSE
  /\ looping' = TRUE
  /\ trail' = <<<<x, y>>>>
  /\ lastOp' = "seed"
  /\ prevPhase' = Phase
  /\ playbackStep' = NULL
  /\ UNCHANGED <<historyX, historyY, detectedPeriod, cyclePoints>>
  /\ UNCHANGED <<iterates, lag, speed, mapParams, bifVars, sweepLog, utilVars,
                 resumeIterationAfterExport>>

\* beginOrbit(x, y): startAt and p.mousePressed inside the plot area
\* variant of beginOrbit: a cycle detected by the previous run is kept
beginOrbitKeepsCycle(x, y) ==
  /\ icX' = x
  /\ icY' = y
  /\ curX' = x
  /\ curY' = y
  /\ orbit' = <<[x |-> x, y |-> y]>>
  /\ historyX' = <<>>
  /\ historyY' = <<>>
  /\ UNCHANGED <<detectedPeriod, cyclePoints>>
  /\ curStep' = 0
  /\ waiting' = FALSE
  /\ diverged' = FALSE
  /\ looping' = TRUE
  /\ trail' = <<<<x, y>>>>
  /\ playbackStep' = NULL
  /\ lastOp' = "seed"
  /\ prevPhase' = Phase
  /\ UNCHANGED <<iterates, lag, speed, mapParams, bifVars, sweepLog, utilVars,
                 resumeIterationAfterExport>>

beginOrbit(x, y) ==
  /\ icX' = x
  /\ icY' = y
  /\ curX' = x
  /\ curY' = y
  /\ orbit' = <<[x |-> x, y |-> y]>>
  /\ historyX' = <<>>
  /\ historyY' = <<>>
  /\ detectedPeriod' = NULL
  /\ cyclePoints' = <<>>
  /\ curStep' = 0
  /\ waiting' = FALSE
  /\ diverged' = FALSE
  /\ looping' = TRUE
  /\ trail' = <<<<x, y>>>>
  /\ playbackStep' = NULL      \* the scrubbed view ends with the run it showed
  /\ lastOp' = "seed"
  /\ prevPhase' = Phase
  /\ UNCHANGED <<iterates, lag, speed, mapParams, bifVars, sweepLog, utilVars,
                 resumeIterationAfterExport>>

\* variant of ResetRun: the engine stays seeded at the origin
ResetRunStaysSeeded ==
  /\ orbit' = <<>>
  /\ historyX' = <<>>
  /\ historyY' = <<>>
  /\ detectedPeriod' = NULL
  /\ cyclePoints' = <<>>
  /\ icX' = 0
  /\ icY' = 0
  /\ curX' = 0
  /\ curY' = 0
  /\ curStep' = 0
  /\ waiting' = FALSE
  /\ diverged' = FALSE
  /\ looping' = TRUE
  /\ trail' = <<>>
  /\ playbackStep' = NULL

\* variant of ResetRun: keeps the detected period and its cycle points
ResetRunKeepsCycle ==
  /\ orbit' = <<>>
  /\ historyX' = <<>>
  /\ historyY' = <<>>
  /\ icX' = 0
  /\ icY' = 0
  /\ curX' = 0
  /\ curY' = 0
  /\ curStep' = 0
  /\ waiting' = TRUE
  /\ diverged' = FALSE
  /\ looping' = TRUE
  /\ trail' = <<>>
  /\ playbackStep' = NULL
  /\ UNCHANGED <<detectedPeriod, cyclePoints>>

\* the state doReset() leaves behind
ResetRun ==
  /\ orbit' = <<>>
  /\ historyX' = <<>>
  /\ historyY' = <<>>
  /\ detectedPeriod' = NULL
  /\ cyclePoints' = <<>>
  /\ icX' = 0
  /\ icY' = 0
  /\ curX' = 0
  /\ curY' = 0
  /\ curStep' = 0
  /\ waiting' = TRUE
  /\ diverged' = FALSE
  /\ looping' = TRUE
  /\ trail' = <<>>
  /\ playbackStep' = NULL      \* the scrubbed view ends with the run it showed

\* IterationHandle.reset
doReset ==
  /\ ResetRun
  /\ lastOp' = "reset"
  /\ prevPhase' = Phase
  /\ UNCHANGED <<iterates, lag, speed, mapParams, bifVars, sweepLog, utilVars,
                 resumeIterationAfterExport>>

\* a field of an overrides object: <<>> when absent (undefined), <<v>> when set
Override(vals) == {<<>>} \cup { <<v>> : v \in vals }
Merge(ov, old) == IF ov = <<>> THEN old ELSE ov[1]

\* variant of IterUpdate: a change of speed or lag alone lets the run go on
IterUpdateKeepsRun(ov) ==
  /\ iterates' = Merge(ov.iterates, iterates)
  /\ lag' = Merge(ov.lag, lag)
  /\ speed' = Merge(ov.speed, speed)
  /\ mapParams' = Merge(ov.params, mapParams)
  /\ IF ov.iterates = <<>> /\ ov.params = <<>>
     THEN UNCHANGED <<orbit, historyX, historyY, detectedPeriod, cyclePoints,
                      icX, icY, curX, curY, curStep, waiting, diverged,
                      looping, trail, playbackStep>>
     ELSE ResetRun
  /\ lastOp' = "update"
  /\ prevPhase' = Phase
  /\ UNCHANGED <<bifVars, sweepLog, utilVars,
                 resumeIterationAfterExport>>

\* IterationHandle.update(ov)
IterUpdate(ov) ==
  /\ iterates' = Merge(ov.iterates, iterates)
  /\ lag' = Merge(ov.lag, lag)
  /\ speed' = Merge(ov.speed, speed)
  /\ mapParams' = Merge(ov.params, mapParams)
  /\ ResetRun
  /\ lastOp' = "update"
  /\ prevPhase' = Phase
  /\ UNCHANGED <<bifVars, sweepLog, utilVars,
                 resumeIterationAfterExport>>

\* Overrides handed to update: at most one field set, or speed and params
\* together as MapPage's effect passes them.
IterationOverrides ==
  { ov \in [iterates : Override(IteratesSet), lag : Override(LagSet),
            speed : Override(SpeedSet), params : Override(MapParamSets)] :
      \/ Cardinality({f \in {"iterates", "lag", "speed", "params"} :
                        ov[f] # <<>>}) <= 1
      \/ ov.iterates = <<>> /\ ov.lag = <<>> }

\* IterationHandle.getState()
getState ==
  [x |-> curX, y |-> curY, step |-> curStep, waiting |-> waiting,
   icX |-> icX, icY |-> icY, detectedPeriod |-> detectedPeriod,
   cyclePoints |-> cyclePoints]

----------------------------------------------------------------------------
\* Timeline scrubbing: setPlaybackStep and pause of the iteration handle, as
\* MapPage calls them.

\* the state after n applications of the map to pt, applied as the frames
\* apply it: never to a state that has diverged
RECURSIVE Replay(_, _)
Replay(pt, n) ==
  IF n <= 0 \/ Escaped(pt[1], pt[2]) THEN pt
  ELSE IF n = 1 THEN MapStep(pt[1], pt[2], mapParams)
  ELSE Replay(Replay(pt, n \div 2), n - n \div 2)

\* the (x, y) shown for the run: the live state, or the state of step
\* playbackStep recomputed from the initial condition
Displayed ==
  IF playbackStep = NULL THEN <<curX, curY>>
  ELSE Replay(<<icX, icY>>, playbackStep)

\* IterationHandle.setPlaybackStep(k)
setPlaybackStep(k) == playbackStep' = k

\* IterationHandle.pause(): no further frame is scheduled
pause == looping' = FALSE

\* slider positions tried: within MaxScrub of either end of 0..curStep
ScrubSteps == { k \in 0 .. curStep : k <= MaxScrub \/ k >= curStep - MaxScrub }

\* variant of TimelineInput: scrubs by rewinding the run itself to step k
TimelineInputRewinds(k) ==
  /\ ~waiting /\ curStep > 0
  /\ k \in 0 .. curStep
  /\ IF looping THEN pause ELSE UNCHANGED looping
  /\ setPlaybackStep(k)
  /\ curStep' = k
  /\ \E pt \in {Replay(<<icX, icY>>, k)} : curX' = pt[1] /\ curY' = pt[2]
  /\ lastOp' = "scrub"
  /\ prevPhase' = Phase
  /\ UNCHANGED <<iterates, lag, speed, mapParams, orbit, icX, icY,
                 waiting, diverged, detectedPeriod, cyclePoints,
                 historyX, historyY, trail, bifVars, sweepLog, utilVars,
                 resumeIterationAfterExport>>

\* onInput of the timeline slider (shown once a run has made a step)
TimelineInput(k) ==
  /\ ~waiting /\ curStep > 0
  /\ k \in 0 .. curStep
  /\ IF looping THEN pause ELSE UNCHANGED looping
  /\ setPlaybackStep(k)
  /\ lastOp' = "scrub"
  /\ prevPhase' = Phase
  /\ UNCHANGED <<iterates, lag, speed, mapParams, orbit, icX, icY, curX, curY,
                 curStep, waiting, diverged, detectedPeriod, cyclePoints,
                 historyX, historyY, trail, bifVars, sweepLog, utilVars,
                 resumeIterationAfterExport>>

\* onClick of the Live button (shown while a step is scrubbed)
LiveButton ==
  /\ ~waiting /\ playbackStep # NULL
  /\ setPlaybackStep(NULL)
  /\ lastOp' = "live"
  /\ prevPhase' = Phase
  /\ UNCHANGED <<iterVars, trail, bifVars, sweepLog, utilVars,
                 resumeIterationAfterExport>>

\* IterationHandle.resume(runImmediately): frames are scheduled again when
\* runImmediately is set
resume(runImmediately) == looping' = (looping \/ runImmediately)

\* the data of a run, which pause and resume leave alone
PauseFrame ==
  UNCHANGED <<iterates, lag, speed, mapParams, orbit, icX, icY, curX, curY,
              curStep, waiting, diverged, detectedPeriod, cyclePoints,
              historyX, historyY, trail, playbackStep, bifVars, sweepLog, utilVars>>

\* onClick of the Pause/Resume button while it reads Pause
PauseButton ==
  /\ ~waiting /\ looping
  /\ pause
  /\ lastOp' = "pause"
  /\ prevPhase' = Phase
  /\ PauseFrame
  /\ UNCHANGED resumeIterationAfterExport

\* variant of ResumeButton: resuming restarts the run from its initial
\* condition
ResumeButtonRestarts ==
  /\ ~waiting /\ ~looping
  /\ resume(TRUE)
  /\ lastOp' = "resume"
  /\ prevPhase' = Phase
  /\ curX' = icX /\ curY' = icY /\ curStep' = 0
  /\ orbit' = <<[x |-> icX, y |-> icY]>>
  /\ trail' = <<<<icX, icY>>>>
  /\ UNCHANGED <<iterates, lag, speed, mapParams, icX, icY, waiting, diverged,
                 detectedPeriod, cyclePoints, historyX, historyY,
                 playbackStep, bifVars, sweepLog, utilVars>>
  /\ UNCHANGED resumeIterationAfterExport

\* onClick of the Pause/Resume button while it reads Resume
ResumeButton ==
  /\ ~waiting /\ ~looping
  /\ resume(TRUE)
  /\ lastOp' = "resume"
  /\ prevPhase' = Phase
  /\ PauseFrame
  /\ UNCHANGED resumeIterationAfterExport

\* CanvasExportButton beforeExport: pause() returns whether frames were
\* being scheduled
BeforeExport ==
  /\ resumeIterationAfterExport' = looping
  /\ pause
  /\ lastOp' = "pause"
  /\ prevPhase' = Phase
  /\ PauseFrame

\* CanvasExportButton afterExport
AfterExport ==
  /\ resume(resumeIterationAfterExport)
  /\ resumeIterationAfterExport' = FALSE
  /\ lastOp' = "resume"
  /\ prevPhase' = Phase
  /\ PauseFrame

----------------------------------------------------------------------------
\* utils/cobweb.ts: compileExpr, cobwebPath, sampleCurve, invertNumerically
\* A compiled expression is called at a grid point and returns a number of
\* the grid, NaN or +/-Infinity, or throws.

IsFinite(v) == v # NaN /\ v # Infinity /\ v # -Infinity

\* v + 1 in floating point
PlusOne(v) == IF IsFinite(v) THEN v + 1 ELSE v

\* Expressions typed into the expression box:
\*   square    a - x*x
\*   line      a*x
\*   nanAt     x + 1, NaN at x = a          (x + 1 + 0/(x - a))
\*   infAt     x + 1, Infinity at x = a
\*   throwsAt  x + 1, throws at x = a
Exprs ==
  { [kind |-> "square", a |-> 2],
    [kind |-> "line", a |-> 3],
    [kind |-> "line", a |-> -1],
    [kind |-> "line", a |-> 8],
    [kind |-> "nanAt", a |-> 2],
    [kind |-> "infAt", a |-> 1],
    [kind |-> "throwsAt", a |-> 0],
    [kind |-> "throwsAt", a |-> 2] }

\* f(x): threw is set when the call throws
Apply(f, x) ==
  CASE f.kind = "square" ->
         [threw |-> FALSE,
          v |-> IF x = NaN THEN NaN
                ELSE IF ~IsFinite(x) THEN -Infinity ELSE f.a - x * x]
    [] f.kind = "line" ->
         [threw |-> FALSE, v |-> IF IsFinite(x) THEN f.a * x ELSE NaN]
    [] f.kind = "nanAt" ->
         [threw |-> FALSE, v |-> IF x = f.a THEN NaN ELSE PlusOne(x)]
    [] f.kind = "infAt" ->
         [threw |-> FALSE, v |-> IF x = f.a THEN Infinity ELSE PlusOne(x)]
    [] f.kind = "throwsAt" ->
         [threw |-> x = f.a, v |-> PlusOne(x)]

\* compileExpr returned an Error
CompileError == [kind |-> "error", a |-> 0]

\* compileExpr(expr): fn(0) is the test call
compileExpr(e) == IF Apply(e, 0).threw THEN CompileError ELSE e

\* no helper has been called on fn
NoCall ==
  [op |-> "none", args |-> <<>>, threw |-> FALSE, calls |-> 0, pts |-> <<>>,
   isNull |-> FALSE, value |-> 0]

\* variant of CobwebIter: pushes the diagonal point before the curve point
CobwebIterDiagonalFirst(f, st) ==
  LET r == Apply(f, st.x)
  IN IF r.threw
     THEN [st EXCEPT !.threw = TRUE, !.calls = @ + 1, !.stopped = TRUE]
     ELSE [pts |-> st.pts \o <<r.v, r.v, st.x, r.v>>,
           x |-> r.v, calls |-> st.calls + 1, threw |-> FALSE,
           stopped |-> ~IsFinite(r.v)]

\* variant of CobwebIter: goes on after a non-finite iterate
CobwebIterNoBreak(f, st) ==
  LET r == Apply(f, st.x)
  IN IF r.threw
     THEN [st EXCEPT !.threw = TRUE, !.calls = @ + 1, !.stopped = TRUE]
     ELSE [pts |-> st.pts \o <<st.x, r.v, r.v, r.v>>,
           x |-> r.v, calls |-> st.calls + 1, threw |-> FALSE,
           stopped |-> FALSE]

\* one iteration of cobwebPath's loop; an exception thrown by f leaves the
\* function at once
CobwebIter(f, st) ==
  LET r == Apply(f, st.x)
  IN IF r.threw
     THEN [st EXCEPT !.threw = TRUE, !.calls = @ + 1, !.stopped = TRUE]
     ELSE [pts |-> st.pts \o <<st.x, r.v, r.v, r.v>>,
           x |-> r.v, calls |-> st.calls + 1, threw |-> FALSE,
           stopped |-> ~IsFinite(r.v)]

\* for (let i = 0; i < n; i++): k iterations left
RECURSIVE CobwebLoop(_, _, _)
CobwebLoop(f, st, k) ==
  IF k <= 0 \/ st.stopped THEN st
  ELSE CobwebLoop(f, CobwebIter(f, st), k - 1)

\* cobwebPath(f, x0, n): the flat array pts, the number of calls of f made,
\* and whether an exception left the function
cobwebPath(f, x0, n) ==
  CobwebLoop(f, [pts |-> <<x0, 0>>, x |-> x0, calls |-> 0, threw |-> FALSE,
                 stopped |-> FALSE], n)

\* for (let i = lo; i <= n; i++) of sampleCurve; xMax - xMin is a multiple
\* of n, so that xMin + (i / n) * (xMax - xMin) is a grid point
RECURSIVE SampleLoop(_, _, _, _, _, _)
SampleLoop(f, xMin, xMax, n, i, st) ==
  IF i > n \/ st.threw THEN st
  ELSE LET x == xMin + (i * (xMax - xMin)) \div n
           r == Apply(f, x)
       IN SampleLoop(f, xMin, xMax, n, i + 1,
            IF r.threw THEN [st EXCEPT !.threw = TRUE, !.calls = @ + 1]
            ELSE [pts |-> st.pts \o <<x, r.v>>, calls |-> st.calls + 1,
                  threw |-> FALSE])

\* sampleCurve(f, xMin, xMax, n)
sampleCurve(f, xMin, xMax, n) ==
  SampleLoop(f, xMin, xMax, n, 0,
             [pts |-> <<>>, calls |-> 0, threw |-> FALSE])

\* v - y in floating point
Minus(v, y) == IF IsFinite(v) THEN v - y ELSE v

\* u * v > 0 in floating point: false when a factor is NaN or 0
ProductPositive(u, v) ==
  /\ u # NaN /\ v # NaN
  /\ (u > 0 /\ v > 0) \/ (u < 0 /\ v < 0)

\* v < 0 in floating point: false for NaN
Negative(v) == v # NaN /\ v < 0

\* tol of invertNumerically: the bracket is halved until it is narrower than
\* InvTol; brackets are 2^k wide with k >= 2, so every midpoint is a grid
\* point
InvTol == 4
\* for (let i = 0; i < 64; i++)
MaxBisections == 64

\* for (let i = ...; i < 64; i++) { if (hi - lo < tol) break; ... }
RECURSIVE BisectLoop(_, _, _, _, _)
BisectLoop(C, y, flo, i, st) ==
  IF i >= MaxBisections \/ st.threw \/ st.hi - st.lo < InvTol THEN st
  ELSE LET mid == (st.lo + st.hi) \div 2
           r == Apply(C, mid)
       IN BisectLoop(C, y, flo, i + 1,
            IF r.threw THEN [st EXCEPT !.threw = TRUE, !.calls = @ + 1]
            ELSE IF Negative(Minus(r.v, y)) = Negative(flo)
                 THEN [st EXCEPT !.lo = mid, !.calls = @ + 1]
                 ELSE [st EXCEPT !.hi = mid, !.calls = @ + 1])

\* invertNumerically(C, y, xMin, xMax): isNull for a null result
invertNumerically(C, y, xMin, xMax) ==
  LET rlo == Apply(C, xMin)
      rhi == Apply(C, xMax)
      flo == Minus(rlo.v, y)
      fhi == Minus(rhi.v, y)
  IN IF rlo.threw
     THEN [threw |-> TRUE, calls |-> 1, isNull |-> FALSE, value |-> 0]
     ELSE IF rhi.threw
     THEN [threw |-> TRUE, calls |-> 2, isNull |-> FALSE, value |-> 0]
     ELSE IF ProductPositive(flo, fhi)
     THEN [threw |-> FALSE, calls |-> 2, isNull |-> TRUE, value |-> 0]
     ELSE LET st == BisectLoop(C, y, flo, 0,
                      [lo |-> xMin, hi |-> xMax, calls |-> 2,
                       threw |-> FALSE])
          IN [threw |-> st.threw, calls |-> st.calls, isNull |-> FALSE,
              value |-> IF st.threw THEN 0 ELSE (st.lo + st.hi) \div 2]

\* the engines and the wasm bridge are left alone by the cobweb helpers
EnginesUnchanged ==
  UNCHANGED <<iterVars, viewVars, histVars, bifVars, sweepLog, wasmVars>>

\* the expression box: a new expression is compiled
CompileExpr(e) ==
  /\ fn' = compileExpr(e)
  /\ call' = NoCall
  /\ EnginesUnchanged

\* the component draws the cobweb of the compiled function
CallCobwebPath(x0, n) ==
  /\ fn # CompileError
  /\ \E r \in {cobwebPath(fn, x0, n)} :
       call' = [op |-> "cobwebPath", args |-> <<x0, n>>, threw |-> r.threw,
                calls |-> r.calls, pts |-> IF r.threw THEN <<>> ELSE r.pts,
                isNull |-> FALSE, value |-> 0]
  /\ UNCHANGED fn
  /\ EnginesUnchanged

\* the component samples the curve of the compiled function
CallSampleCurve(xMin, xMax, n) ==
  /\ fn # CompileError
  /\ \E r \in {sampleCurve(fn, xMin, xMax, n)} :
       call' = [op |-> "sampleCurve", args |-> <<xMin, xMax, n>>,
                threw |-> r.threw, calls |-> r.calls,
                pts |-> IF r.threw THEN <<>> ELSE r.pts,
                isNull |-> FALSE, value |-> 0]
  /\ UNCHANGED fn
  /\ EnginesUnchanged

\* the conjugacy view inverts the compiled function at y
CallInvertNumerically(y, xMin, xMax) ==
  /\ fn # CompileError
  /\ \E r \in {invertNumerically(fn, y, xMin, xMax)} :
       call' = [op |-> "invertNumerically", args |-> <<y, xMin, xMax>>,
                threw |-> r.threw, calls |-> r.calls, pts |-> <<>>,
                isNull |-> r.isNull, value |-> r.value]
  /\ UNCHANGED fn
  /\ EnginesUnchanged

----------------------------------------------------------------------------
\* uiua/wasm.ts: init()

\* the components that import init, each calling it when it mounts
Components == 1 .. MaxComponents

\* init() up to its await: if (initialized) return; await initWasm()
InitCall(c) ==
  /\ caller[c] = "idle"
  /\ IF initialized
     THEN /\ caller' = [caller EXCEPT ![c] = "resolved"]
          /\ UNCHANGED instantiations
     ELSE /\ caller' = [caller EXCEPT ![c] = "awaiting"]
          /\ instantiations' = instantiations + 1
  /\ UNCHANGED initialized
  /\ UNCHANGED <<iterVars, viewVars, histVars, bifVars, sweepLog, fn, call>>

\* init() after its await: initialized = true, and the promise resolves
InitResume(c) ==
  /\ caller[c] = "awaiting"
  /\ initialized' = TRUE
  /\ caller' = [caller EXCEPT ![c] = "resolved"]
  /\ UNCHANGED instantiations
  /\ UNCHANGED <<iterVars, viewVars, histVars, bifVars, sweepLog, fn, call>>

\* the component is unmounted and will call init() again when it mounts
Remount(c) ==
  /\ caller[c] = "resolved"
  /\ caller' = [caller EXCEPT ![c] = "idle"]
  /\ UNCHANGED <<initialized, instantiations>>
  /\ UNCHANGED <<iterVars, viewVars, histVars, bifVars, sweepLog, fn, call>>

\* the wasm module has been imported and nothing has called init()
WasmLoaded ==
  /\ initialized = FALSE
  /\ instantiations = 0
  /\ caller = [c \in Components |-> "idle"]

\* the cobweb module has been imported; the expression box is empty
UtilsLoaded == fn = CompileError /\ call = NoCall /\ WasmLoaded

\* starting points and iteration counts of the cobweb
CobwebStarts == -MaxIC .. MaxIC
CobwebCounts == 0 .. MaxCobweb

\* sample ranges: n + 1 samples over a range n or 2n wide
SampleRanges == { <<-2, 2, 4>>, <<0, 4, 2>>, <<-1, 0, 1>> }

\* brackets of the inversion: 4, 8 or 16 wide
Brackets == { <<-4, 4>>, <<0, 4>>, <<-2, 2>>, <<0, 16>> }
Targets == -MaxIC .. MaxIC

----------------------------------------------------------------------------

\* mountBifurcation: compute()
\* compute() is followed one iteration of its sweep loop at a time; nothing
\* else runs until the loop has ended (bifPc = "done").

\* const p = { ...mapParams, [sweepParam]: a }, with bifurcationParam 'a'
SweepParams(a) == [bifParams EXCEPT !.a = a]

\* one iteration of for (let i = 0; i < N; i++): xArr[i + 1], yArr[i + 1]
TrajStep(t, p) ==
  IF t.diverged THEN t
  ELSE LET i == Len(t.xArr)
           n == MapStep(t.xArr[i], t.yArr[i], p)
       IN [xArr |-> Append(t.xArr, n[1]),
           yArr |-> Append(t.yArr, n[2]),
           diverged |-> Exceeds(n[1])]

\* n iterations of the loop, none after the break
RECURSIVE TrajLoop(_, _, _)
TrajLoop(t, p, n) ==
  IF n <= 0 \/ t.diverged THEN t
  ELSE IF n = 1 THEN TrajStep(t, p)
  ELSE TrajLoop(TrajLoop(t, p, n \div 2), p, n - n \div 2)

\* xArr[k] of the source is xArr[k + 1] here
At(arr, k) == arr[k + 1]

\* for (let j = 0; j <= S; j++) { per = 2 ** j; if (per > N) break; ... }
RECURSIVE SearchLoop(_, _, _)
SearchLoop(xArr, j, st) ==
  IF j > S \/ 2 ^ j > N THEN st
  ELSE SearchLoop(xArr, j + 1,
         IF CloserThan(At(xArr, N), At(xArr, N - 2 ^ j), tol) /\ ~st.found
         THEN [found |-> TRUE, period |-> j]
         ELSE st)

\* variant of RecordDoubling: sets the entry whenever a period was found
RecordDoublingAlways(pd, found, per, a) ==
  IF found THEN (per :> a) @@ pd ELSE pd

\* if (found && !periodDoublings.has(detectedPeriod)) periodDoublings.set(...)
RecordDoubling(pd, found, per, a) ==
  IF found /\ per \notin DOMAIN pd THEN (per :> a) @@ pd ELSE pd

\* const orbitLen = ...; for (let k = start; k <= N; k++) points.push(...)
EmitPoints(pts, a, xArr, yArr, found, per) ==
  LET orbitLen == IF found THEN per ELSE Min(OrbitCap, N)
      start == N - orbitLen
  IN pts \o [k \in 1 .. (N - start + 1) |->
               [a |-> a, x |-> At(xArr, start + k - 1),
                y |-> At(yArr, start + k - 1)]]

\* the body of for (let a = paramMin; a <= paramMax; a += dParam)
SweepIter ==
  /\ bifPc = "sweep"
  /\ sweepA <= paramMax
  /\ \E t \in {TrajLoop([xArr |-> <<ic[1]>>, yArr |-> <<ic[2]>>,
                         diverged |-> FALSE], SweepParams(sweepA), N)} :
       IF t.diverged
       THEN /\ UNCHANGED <<points, periodDoublings>>
            /\ sweepLog' = (sweepA :> [diverged |-> TRUE, found |-> FALSE,
                                       detectedPeriod |-> 0]) @@ sweepLog
       ELSE \E st \in {SearchLoop(t.xArr, 0, [found |-> FALSE, period |-> S])} :
              LET detected == 2 ^ st.period
              IN /\ periodDoublings' =
                      RecordDoubling(periodDoublings, st.found, detected, sweepA)
                 /\ points' = EmitPoints(points, sweepA, t.xArr, t.yArr,
                                         st.found, detected)
                 /\ sweepLog' = (sweepA :> [diverged |-> FALSE,
                                            found |-> st.found,
                                            detectedPeriod |-> detected])
                                  @@ sweepLog
  /\ sweepA' = sweepA + dParam
  /\ UNCHANGED <<paramMin, paramMax, dParam, N, ic, bifParams, bifPc>>
  /\ UNCHANGED <<iterVars, viewVars, histVars, utilVars>>

\* the loop condition a <= paramMax fails: compute() returns
SweepExit ==
  /\ bifPc = "sweep"
  /\ sweepA > paramMax
  /\ bifPc' = "done"
  /\ UNCHANGED <<paramMin, paramMax, dParam, N, ic, bifParams, points,
                 periodDoublings, sweepA, sweepLog>>
  /\ UNCHANGED <<iterVars, viewVars, histVars, utilVars>>

\* map parameters of the sweeps (a is the swept one)
BifParamSets ==
  { [kind |-> "henon", a |-> 0, b |-> -1],
    [kind |-> "henon", a |-> 0, b |-> 0],
    [kind |-> "drift", a |-> 0, b |-> 0],
    [kind |-> "drift", a |-> 0, b |-> 5000],
    [kind |-> "flip",  a |-> 0, b |-> 1] }

ParamMinSet == {0, 1}
ParamMaxSet == {MaxParam - 1, MaxParam}
DParamSet == {1, 2}
NSet == {1, 3, 5, 6, OrbitCap + 4}

\* variant of BifUpdate: compute() appends to the points and table it finds
BifUpdateKeepsPoints(ov) ==
  /\ bifPc = "done"
  /\ paramMin' = Merge(ov.paramMin, paramMin)
  /\ paramMax' = Merge(ov.paramMax, paramMax)
  /\ dParam' = Merge(ov.dParam, dParam)
  /\ N' = Merge(ov.N, N)
  /\ ic' = Merge(ov.ic, ic)
  /\ bifParams' = Merge(ov.params, bifParams)
  /\ UNCHANGED <<points, periodDoublings>>
  /\ sweepLog' = <<>>
  /\ sweepA' = paramMin'
  /\ bifPc' = "sweep"
  /\ lastOp' = "update"
  /\ UNCHANGED <<iterVars, viewVars, trail, prevPhase, utilVars>>

\* BifurcationHandle.update(ov): merge, then compute() from its first line
BifUpdate(ov) ==
  /\ bifPc = "done"
  /\ paramMin' = Merge(ov.paramMin, paramMin)
  /\ paramMax' = Merge(ov.paramMax, paramMax)
  /\ dParam' = Merge(ov.dParam, dParam)
  /\ N' = Merge(ov.N, N)
  /\ ic' = Merge(ov.ic, ic)
  /\ bifParams' = Merge(ov.params, bifParams)
  /\ points' = <<>>
  /\ periodDoublings' = <<>>
  /\ sweepLog' = <<>>
  /\ sweepA' = paramMin'
  /\ bifPc' = "sweep"
  /\ lastOp' = "update"
  /\ UNCHANGED <<iterVars, viewVars, trail, prevPhase, utilVars>>

\* overrides handed to update: at most one field set
BifurcationOverrides ==
  { ov \in [paramMin : Override(ParamMinSet), paramMax : Override(ParamMaxSet),
            dParam : Override(DParamSet), N : Override(NSet),
            ic : Override(ICs), params : Override(BifParamSets)] :
      Cardinality({f \in {"paramMin", "paramMax", "dParam", "N", "ic",
                          "params"} : ov[f] # <<>>}) <= 1 }

\* mountBifurcation(container, mapDef, overrides), compute() about to loop
BifMounted ==
  /\ paramMin \in ParamMinSet
  /\ paramMax \in ParamMaxSet
  /\ dParam \in DParamSet
  /\ N \in NSet
  /\ ic \in ICs
  /\ bifParams \in BifParamSets
  /\ points = <<>>
  /\ periodDoublings = <<>>
  /\ sweepLog = <<>>
  /\ sweepA = paramMin
  /\ bifPc = "sweep"

\* no iteration sketch is mounted while the bifurcation view is shown
IterUnmounted ==
  /\ iterates = DefaultIterates /\ lag = DefaultLag /\ speed = 1
  /\ mapParams = [kind |-> "henon", a |-> 0, b |-> 0]
  /\ orbit = <<>>
  /\ icX = 0 /\ icY = 0 /\ curX = 0 /\ curY = 0 /\ curStep = 0
  /\ waiting = TRUE
  /\ diverged = FALSE
  /\ detectedPeriod = NULL
  /\ cyclePoints = <<>>
  /\ historyX = <<>> /\ historyY = <<>>
  /\ looping = FALSE
  /\ playbackStep = NULL
  /\ resumeIterationAfterExport = FALSE
  /\ trail = <<>>
  /\ lastOp = "none"
  /\ prevPhase = "none"

SweepInit == BifMounted /\ IterUnmounted /\ UtilsLoaded

SweepNext ==
  \/ SweepIter
  \/ SweepExit
  \/ \E ov \in BifurcationOverrides : BifUpdate(ov)

SweepSpec == SweepInit /\ [][SweepNext]_vars

\* Sweeps over every configuration the overrides type admits: dParam of
\* either sign or zero, paramMin on either side of paramMax.
ConfigParamMinSet == {0, MaxParam}
ConfigParamMaxSet == {MaxParam - 1, MaxParam}
ConfigDParamSet == {-1, 0, 1}
ConfigNSet == {1, 3}

ConfigOverrides ==
  { ov \in [paramMin : Override(ConfigParamMinSet),
            paramMax : Override(ConfigParamMaxSet),
            dParam : Override(ConfigDParamSet), N : Override(ConfigNSet),
            ic : Override(ICs), params : Override(BifParamSets)] :
      Cardinality({f \in {"paramMin", "paramMax", "dParam", "N", "ic",
                          "params"} : ov[f] # <<>>}) <= 1 }

\* mountBifurcation(container, mapDef, overrides), compute() about to loop
ConfigMounted ==
  /\ paramMin \in ConfigParamMinSet
  /\ paramMax \in ConfigParamMaxSet
  /\ dParam \in ConfigDParamSet
  /\ N \in ConfigNSet
  /\ ic \in ICs
  /\ bifParams \in BifParamSets
  /\ points = <<>>
  /\ periodDoublings = <<>>
  /\ sweepLog = <<>>
  /\ sweepA = paramMin
  /\ bifPc = "sweep"

ConfigInit == ConfigMounted /\ IterUnmounted /\ UtilsLoaded

\* the part of a sweep that is followed
WithinHorizon == Len(points) < MaxEmitted /\ sweepA >= -MaxParam

ConfigNext ==
  \/ WithinHorizon /\ SweepIter
  \/ SweepExit
  \/ \E ov \in ConfigOverrides : BifUpdate(ov)

ConfigSpec == ConfigInit /\ [][ConfigNext]_vars

----------------------------------------------------------------------------

\* no sweep is mounted while the iteration view is shown
BifUnmounted ==
  /\ paramMin = 0 /\ paramMax = 0 /\ dParam = 1 /\ N = 0
  /\ ic = <<0, 0>>
  /\ bifParams = [kind |-> "henon", a |-> 0, b |-> 0]
  /\ points = <<>>
  /\ periodDoublings = <<>>
  /\ sweepLog = <<>>
  /\ sweepA = 0
  /\ bifPc = "unmounted"

\* mountIteration(container, mapDef, overrides)
IterMounted ==
  /\ iterates \in IteratesSet
  /\ lag \in LagSet
  /\ speed \in SpeedSet
  /\ mapParams \in MapParamSets
  /\ orbit = <<>>
  /\ icX = 0 /\ icY = 0 /\ curX = 0 /\ curY = 0 /\ curStep = 0
  /\ waiting = TRUE
  /\ diverged = FALSE
  /\ detectedPeriod = NULL
  /\ cyclePoints = <<>>
  /\ historyX = <<>> /\ historyY = <<>>
  /\ looping = TRUE
  /\ playbackStep = NULL
  /\ resumeIterationAfterExport = FALSE
  /\ trail = <<>>
  /\ lastOp = "mount"
  /\ prevPhase = "none"

Init == IterMounted /\ BifUnmounted /\ UtilsLoaded

Next ==
  \/ Draw
  \/ \E c \in ICs : beginOrbit(c[1], c[2])
  \/ doReset
  \/ \E ov \in IterationOverrides : IterUpdate(ov)

Spec == Init /\ [][Next]_vars

\* The live engine mounted on a map whose orbit creeps by no more than
\* PERIOD_TOL per step (a translation by 1e-8), next to the reflection.
SlowDriftParamSets ==
  { [kind |-> "drift", a |-> 1, b |-> 0],
    [kind |-> "flip",  a |-> 4, b |-> 0] }

SlowDriftMounted ==
  /\ iterates \in IteratesSet
  /\ lag \in LagSet
  /\ speed \in SpeedSet
  /\ mapParams \in SlowDriftParamSets
  /\ orbit = <<>>
  /\ icX = 0 /\ icY = 0 /\ curX = 0 /\ curY = 0 /\ curStep = 0
  /\ waiting = TRUE
  /\ diverged = FALSE
  /\ detectedPeriod = NULL
  /\ cyclePoints = <<>>
  /\ historyX = <<>> /\ historyY = <<>>
  /\ looping = TRUE
  /\ playbackStep = NULL
  /\ resumeIterationAfterExport = FALSE
  /\ trail = <<>>
  /\ lastOp = "mount"
  /\ prevPhase = "none"

SlowDriftInit == SlowDriftMounted /\ BifUnmounted /\ UtilsLoaded

SlowDriftSpec == SlowDriftInit /\ [][Next]_vars

\* Either engine over step functions that return a non-finite number.
NonFiniteParamSets ==
  { [kind |-> "poleX", a |-> 2, b |-> NaN],
    [kind |-> "poleX", a |-> 2, b |-> Infinity],
    [kind |-> "poleY", a |-> 2, b |-> NaN],
    [kind |-> "poleY", a |-> 2, b |-> -Infinity] }

NonFiniteIterMounted ==
  /\ iterates = TRANSIENT + 6
  /\ lag = 2
  /\ speed \in SpeedSet
  /\ mapParams \in NonFiniteParamSets
  /\ orbit = <<>>
  /\ icX = 0 /\ icY = 0 /\ curX = 0 /\ curY = 0 /\ curStep = 0
  /\ waiting = TRUE
  /\ diverged = FALSE
  /\ detectedPeriod = NULL
  /\ cyclePoints = <<>>
  /\ historyX = <<>> /\ historyY = <<>>
  /\ looping = TRUE
  /\ playbackStep = NULL
  /\ resumeIterationAfterExport = FALSE
  /\ trail = <<>>
  /\ lastOp = "mount"
  /\ prevPhase = "none"

NonFiniteBifMounted ==
  /\ paramMin \in {0, 1}
  /\ paramMax = 2
  /\ dParam = 1
  /\ N = 3
  /\ ic \in ICs
  /\ bifParams \in NonFiniteParamSets
  /\ points = <<>>
  /\ periodDoublings = <<>>
  /\ sweepLog = <<>>
  /\ sweepA = paramMin
  /\ bifPc = "sweep"

NonFiniteInit ==
  /\ UtilsLoaded
  /\ \/ NonFiniteIterMounted /\ BifUnmounted
     \/ NonFiniteBifMounted /\ IterUnmounted

NonFiniteNext ==
  \/ bifPc = "unmounted" /\ Draw
  \/ bifPc = "unmounted" /\ \E c \in ICs : beginOrbit(c[1], c[2])
  \/ bifPc = "unmounted" /\ doReset
  \/ SweepIter
  \/ SweepExit

NonFiniteSpec == NonFiniteInit /\ [][NonFiniteNext]_vars

\* no engine is mounted on the cobweb pages
CobwebInit == IterUnmounted /\ BifUnmounted /\ UtilsLoaded

CobwebNext ==
  \/ \E e \in Exprs : CompileExpr(e)
  \/ \E x0 \in CobwebStarts, n \in CobwebCounts : CallCobwebPath(x0, n)
  \/ \E r \in SampleRanges : CallSampleCurve(r[1], r[2], r[3])
  \/ \E y \in Targets, b \in Brackets : CallInvertNumerically(y, b[1], b[2])

CobwebSpec == CobwebInit /\ [][CobwebNext]_vars

\* the pages whose components initialize the wasm bridge
WasmInit == IterUnmounted /\ BifUnmounted /\ UtilsLoaded

WasmNext ==
  \/ \E c \in Components : InitCall(c)
  \/ \E c \in Components : InitResume(c)
  \/ \E c \in Components : Remount(c)

WasmSpec == WasmInit /\ [][WasmNext]_vars

\* the iteration view with its timeline slider
PlaybackNext ==
  \/ Draw
  \/ \E c \in ICs : beginOrbit(c[1], c[2])
  \/ doReset
  \/ \E k \in ScrubSteps : TimelineInput(k)
  \/ LiveButton

\* MapPage mounts the sketch with speed and params only
PlaybackInit == Init /\ iterates = DefaultIterates /\ lag = DefaultLag

PlaybackSpec == PlaybackInit /\ [][PlaybackNext]_vars

\* the iteration view with its Pause/Resume and export buttons
PauseNext ==
  \/ Draw
  \/ \E c \in ICs : beginOrbit(c[1], c[2])
  \/ doReset
  \/ PauseButton
  \/ ResumeButton
  \/ BeforeExport
  \/ AfterExport

PauseSpec == PlaybackInit /\ [][PauseNext]_vars

\* Runs of the live engine with the animation loop scheduled fairly: p5
\* calls draw again for as long as the sketch is looping.
RunNext ==
  \/ Draw
  \/ \E c \in ICs : beginOrbit(c[1], c[2])
  \/ doReset
  \/ PauseButton
  \/ ResumeButton

RunSpec == PlaybackInit /\ [][RunNext]_vars /\ WF_vars(Draw)

----------------------------------------------------------------------------
\* Live engine: divergence

Beyond(pt) == Abs(pt[1]) > Escape \/ Abs(pt[2]) > Escape

\* the states this step appended to the run
Produced == { i \in 1 .. Len(trail') : i > Len(trail) }

\* C1: once a map application yields a state with |x| > 1e10 or |y| > 1e10
\* the run is diverged; from then on no frame changes the step counter, the
\* current state, the trailing window or the history; only seed, reset or
\* update clears the diverged condition.
C1_DivergenceIsTerminal ==
  [][/\ (lastOp' = "draw" /\ \E i \in Produced : Beyond(trail'[i]))
          => diverged'
     /\ (diverged /\ lastOp' = "draw")
          => /\ diverged'
             /\ UNCHANGED <<curStep, curX, curY, orbit, historyX, historyY>>
     /\ (diverged /\ ~diverged')
          => lastOp' \in {"seed", "reset", "update"}]_vars

\* a frame was drawn on a run that had diverged after the transient
C1_Witness ==
  /\ lastOp = "draw" /\ prevPhase = "diverged" /\ diverged
  /\ Len(historyX) > 0
  /\ Abs(curX) <= Escape /\ Abs(curY) > Escape

----------------------------------------------------------------------------
\* Live engine: period detection

\* each of the last min(2p, len - p) states equals the state p earlier
Repeats(hx, hy, p) ==
  \A k \in 1 .. Min(2 * p, Len(hx) - p) :
    LET at == Len(hx) + 1 - k
    IN /\ Abs(hx[at] - hx[at - p]) <= PERIOD_TOL
       /\ Abs(hy[at] - hy[at - p]) <= PERIOD_TOL

Candidates(hx) == 1 .. Min(MAX_PERIOD_CHECK, Len(hx) \div 2)

LastStates(hx, hy, p) ==
  [i \in 1 .. p |-> [x |-> hx[Len(hx) - p + i], y |-> hy[Len(hx) - p + i]]]

\* detection runs in a frame that iterates with more than 3 * 128 history
\* states, and in the frame that finds the budget used up with more than 2
DetectionRuns ==
  /\ lastOp' = "draw" /\ ~waiting /\ ~diverged /\ detectedPeriod = NULL
  /\ \/ curStep < iterates /\ Len(historyX') > MAX_PERIOD_CHECK * 3
     \/ ~diverged' /\ curStep' >= iterates /\ Len(historyX') > 2

\* C6: when detection sets a period it is the smallest p in
\* 1..min(128, floor(len/2)) that repeats over the last min(2p, len - p)
\* states within 1e-8, and cyclePoints is the last p history states; when no
\* such p exists detectedPeriod stays null and cyclePoints is unchanged.
C6_SmallestRepeatingPeriod ==
  [][/\ (detectedPeriod = NULL /\ detectedPeriod' # NULL)
          => /\ DetectionRuns
             /\ detectedPeriod' \in Candidates(historyX')
             /\ Repeats(historyX', historyY', detectedPeriod')
             /\ \A q \in 1 .. detectedPeriod' - 1 :
                  ~Repeats(historyX', historyY', q)
             /\ cyclePoints' = LastStates(historyX', historyY', detectedPeriod')
     /\ DetectionRuns
          => \/ detectedPeriod' # NULL
             \/ /\ \A q \in Candidates(historyX') :
                     ~Repeats(historyX', historyY', q)
                /\ cyclePoints' = cyclePoints]_vars

\* a frame detected period 4 although candidates 1, 2 and 3 came first
C6_Witness ==
  /\ lastOp = "draw" /\ detectedPeriod = 4 /\ Len(cyclePoints) = 4
  /\ Len(historyX) > MAX_PERIOD_CHECK * 3

\* C7: a run that uses up its budget without diverging and whose final
\* detection attempt finds no period reports detectedPeriod = 0, not null.
C7_NoPeriodReportedAsZero ==
  (/\ lastOp = "draw" /\ ~waiting /\ ~diverged /\ curStep >= iterates
   /\ Len(historyX) > 2
   /\ detectedPeriod \notin 1 .. MAX_PERIOD_CHECK)
    => detectedPeriod = 0

----------------------------------------------------------------------------
\* Live engine: seed and reset

\* C8: seed/startAt(x0, y0) in any engine state leaves ic = current state =
\* (x0, y0), step 0, not waiting, not diverged, no period, no cycle points,
\* an empty history and a trailing window holding only (x0, y0).
C8_SeedStartsFreshRun ==
  lastOp = "seed" =>
    /\ trail = << <<icX, icY>> >>
    /\ curX = icX /\ curY = icY
    /\ curStep = 0
    /\ ~waiting /\ ~diverged
    /\ detectedPeriod = NULL /\ cyclePoints = <<>>
    /\ historyX = <<>> /\ historyY = <<>>
    /\ orbit = <<[x |-> icX, y |-> icY]>>

\* a diverged run was re-seeded away from the origin
C8_Witness ==
  lastOp = "seed" /\ prevPhase = "diverged" /\ icX # 0 /\ icY # 0

\* C9: reset() in any engine state leaves the engine waiting at step 0 with
\* state and ic (0, 0), not diverged, no period, and empty cycle points,
\* trailing window and history.
C9_ResetDiscardsRun ==
  lastOp = "reset" =>
    /\ getState = [x |-> 0, y |-> 0, step |-> 0, waiting |-> TRUE,
                   icX |-> 0, icY |-> 0, detectedPeriod |-> NULL,
                   cyclePoints |-> <<>>]
    /\ ~diverged
    /\ orbit = <<>>
    /\ historyX = <<>> /\ historyY = <<>>

\* a completed run with a detected cycle was reset
C9_Witness == lastOp = "reset" /\ prevPhase = "completed"

----------------------------------------------------------------------------
\* Live engine: scrubbing

\* C10: after seeding and advancing, setPlaybackStep(k) with 0 <= k <= step
\* shows the state the run had after exactly k map applications; with
\* k = step it shows the live state.
C10_ScrubShowsStepK ==
  lastOp = "scrub" =>
    /\ playbackStep \in 0 .. curStep
    /\ Displayed = trail[playbackStep + 1]
    /\ playbackStep = curStep => Displayed = <<curX, curY>>

\* the slider was dragged one step back on a re-seeded run past the transient
C10_Witness ==
  /\ lastOp = "scrub" /\ playbackStep = curStep - 1 /\ curStep > TRANSIENT
  /\ Displayed # <<curX, curY>> /\ Displayed # <<icX, icY>>
  /\ <<icX, icY>> # <<0, 0>>

\* the data of the live run: everything but the view and the draw loop
RunData == <<detectedPeriod, cyclePoints, curStep, curX, curY, orbit,
             historyX, historyY, icX, icY>>

\* C11: setPlaybackStep(k) and setPlaybackStep(null) change neither
\* detectedPeriod, cyclePoints, the live step counter, the live current
\* state, the trailing window, the history nor the initial condition; after
\* setPlaybackStep(null) the displayed state is the live state again.
C11_ScrubbingIsReadOnly ==
  [][/\ lastOp' \in {"scrub", "live"} => UNCHANGED RunData
     /\ lastOp' = "live" => Displayed' = <<curX', curY'>>]_vars

\* a run with a detected cycle was scrubbed to an earlier step and returned
\* to the live view
C11_Witness ==
  /\ lastOp = "live" /\ prevPhase = "completed"
  /\ detectedPeriod # NULL /\ Len(historyX) > 0

----------------------------------------------------------------------------
\* Live engine: pause and resume

\* C12: pause() and resume() change only the running flag, leaving step,
\* current state, initial condition, trailing window, history,
\* detectedPeriod and cyclePoints as they were, and while the engine is
\* paused nothing applies the map.
C12_PauseKeepsRun ==
  [][/\ lastOp' \in {"pause", "resume"} => UNCHANGED <<RunData, trail>>
     /\ (~waiting /\ ~looping /\ lastOp' \notin {"seed", "reset", "update"})
          => UNCHANGED <<RunData, trail>>]_vars

\* a run paused after the transient, before its budget ended, was resumed
C12_Witness ==
  /\ lastOp = "resume" /\ looping /\ prevPhase = "running"
  /\ curStep > TRANSIENT /\ Len(historyX) > 0

----------------------------------------------------------------------------
\* Live engine: trailing window, history, waiting

\* the states of the run that did not diverge, initial condition first
Kept ==
  IF diverged /\ Len(trail) > 0 THEN SubSeq(trail, 1, Len(trail) - 1)
  ELSE trail

\* the last n elements of a sequence
LastOf(seq, n) == SubSeq(seq, Len(seq) - n + 1, Len(seq))

AsPoints(seq) == [i \in 1 .. Len(seq) |-> [x |-> seq[i][1], y |-> seq[i][2]]]

\* C13: with lag >= 1 the trailing window of a seeded run holds at most lag
\* states: the most recent non-diverged states of the orbit, the initial
\* condition counting as the first, in the order they were produced (so an
\* append to a full window evicts exactly the oldest state).
C13_WindowIsRecentStates ==
  (~waiting /\ lag >= 1) =>
    /\ Len(orbit) <= lag
    /\ orbit = AsPoints(LastOf(Kept, Min(lag, Len(Kept))))

\* a run that diverged after its window had filled and evicted states
C13_Witness ==
  /\ ~waiting /\ diverged /\ Len(orbit) = lag /\ Len(Kept) > lag + 1
  /\ orbit[1] # [x |-> icX, y |-> icY]

\* the number of non-diverging map applications of the run
Applications == IF Len(Kept) = 0 THEN 0 ELSE Len(Kept) - 1

\* C14: the history holds exactly the states of the non-diverging
\* applications with step number greater than 500, in order: its length is
\* max(0, n - 500) after n such applications, the x and y histories have
\* the same length, and no entry is removed or altered until seed, reset or
\* update.
C14_HistoryIsPostTransient ==
  [][/\ Len(historyX') = Len(historyY')
     /\ Len(historyX') = IF Applications' > TRANSIENT
                         THEN Applications' - TRANSIENT ELSE 0
     /\ \A i \in 1 .. Len(historyX') :
          <<historyX'[i], historyY'[i]>> = Kept'[TRANSIENT + 1 + i]
     /\ lastOp' \notin {"seed", "reset", "update"}
          => /\ Len(historyX') >= Len(historyX)
             /\ SubSeq(historyX', 1, Len(historyX)) = historyX
             /\ SubSeq(historyY', 1, Len(historyY)) = historyY]_vars

\* a frame took a run across step 500 and recorded its first history states
C14_Witness ==
  /\ lastOp = "draw" /\ prevPhase = "running"
  /\ curStep > TRANSIENT /\ curStep < iterates
  /\ Len(historyX) = curStep - TRANSIENT
  /\ historyX[1] # icX

\* C15: the engine is waiting from mount and after every reset or update;
\* a frame drawn while waiting applies no map step and changes nothing
\* (step 0, empty history and trailing window, no period); the engine leaves
\* waiting only through seed/startAt.
C15_WaitingUntilSeeded ==
  [][/\ lastOp \in {"mount", "reset", "update"} => waiting
     /\ lastOp' \in {"reset", "update"} => waiting'
     /\ waiting
          => /\ curStep = 0 /\ detectedPeriod = NULL
             /\ orbit = <<>> /\ historyX = <<>> /\ historyY = <<>>
             /\ trail = <<>>
     /\ (waiting /\ lastOp' = "draw")
          => /\ waiting'
             /\ UNCHANGED <<RunData, trail, diverged, cyclePoints, looping>>
     /\ (waiting /\ ~waiting') => lastOp' = "seed"]_vars

\* a frame was drawn on a waiting engine and left it waiting and animating
C15_Witness ==
  lastOp = "draw" /\ prevPhase = "waiting" /\ waiting /\ looping

----------------------------------------------------------------------------
\* Bifurcation sweep

\* the orbit of the swept value a: the initial condition and the states of up
\* to N applications, ending at the first state with a coordinate beyond 1e10
OrbitStep(o, p) ==
  IF o.escaped THEN o
  ELSE LET last == o.states[Len(o.states)]
           n == MapStep(last[1], last[2], p)
       IN [states |-> Append(o.states, n), escaped |-> Beyond(n)]

RECURSIVE OrbitLoop(_, _, _)
OrbitLoop(o, p, n) ==
  IF n <= 0 \/ o.escaped THEN o
  ELSE IF n = 1 THEN OrbitStep(o, p)
  ELSE OrbitLoop(OrbitLoop(o, p, n \div 2), p, n - n \div 2)

OrbitOf(a) ==
  OrbitLoop([states |-> <<ic>>, escaped |-> FALSE], SweepParams(a), N)

\* the emitted points of the swept value a, in output order
PointsAt(a) == SelectSeq(points, LAMBDA pt : pt.a = a)

\* two states agree within the sweep tolerance on both coordinates
Agree(u, v) == Abs(u[1] - v[1]) < tol /\ Abs(u[2] - v[2]) < tol

\* the exponents j whose period 2^j fits in N and closes the orbit at state N
Closing(states) ==
  { j \in 0 .. S : 2 ^ j <= N /\ Agree(states[N + 1], states[N + 1 - 2 ^ j]) }

SetMin(ns) == CHOOSE m \in ns : \A n \in ns : m <= n

\* C2: a swept value whose orbit leaves |x| <= 1e10 or |y| <= 1e10 at any of
\* the N iterations has no point in the output and no period-doubling entry.
C2_DivergedValueOmitted ==
  bifPc = "done" =>
    \A a \in DOMAIN sweepLog :
      OrbitOf(a).escaped =>
        /\ PointsAt(a) = <<>>
        /\ \A k \in DOMAIN periodDoublings : periodDoublings[k] # a

\* C3: for a non-diverged swept value the detected period is 2^j for the
\* smallest j in 0..12 with 2^j <= N such that states N and N - 2^j agree
\* within 1e-5 on x and on y; no period is found when there is no such j.
C3_SmallestPowerOfTwoPeriod ==
  bifPc = "done" =>
    \A a \in DOMAIN sweepLog :
      LET o == OrbitOf(a) IN
      ~o.escaped =>
        IF Closing(o.states) = {}
        THEN ~sweepLog[a].found
        ELSE /\ sweepLog[a].found
             /\ sweepLog[a].detectedPeriod = 2 ^ SetMin(Closing(o.states))

\* the swept values at which the sweep detected period k
DetectedAt(k) ==
  { a \in DOMAIN sweepLog :
      /\ ~sweepLog[a].diverged
      /\ sweepLog[a].found
      /\ sweepLog[a].detectedPeriod = k }

\* C4: the period-doubling table has one entry per period detected at a
\* non-diverged swept value, holding the first (smallest) swept a at which
\* the period was detected; later values never overwrite it.
C4_FirstOccurrenceRecorded ==
  /\ DOMAIN periodDoublings =
       { sweepLog[a].detectedPeriod :
           a \in { b \in DOMAIN sweepLog :
                     ~sweepLog[b].diverged /\ sweepLog[b].found } }
  /\ \A k \in DOMAIN periodDoublings :
       /\ periodDoublings[k] \in DetectedAt(k)
       /\ periodDoublings[k] = SetMin(DetectedAt(k))

\* a finished sweep found two periods, one of them at two swept values
C4_Witness ==
  /\ bifPc = "done"
  /\ Cardinality(DOMAIN periodDoublings) >= 2
  /\ \E k \in DOMAIN periodDoublings : Cardinality(DetectedAt(k)) >= 2

\* C5: a non-diverged swept value emits exactly detectedPeriod points when a
\* period was found and min(256, N) otherwise: the last states of its orbit,
\* in order, ending with state N.
C5_EmitsOneCycle ==
  bifPc = "done" =>
    \A a \in DOMAIN sweepLog :
      LET o == OrbitOf(a)
          count == IF sweepLog[a].found THEN sweepLog[a].detectedPeriod
                   ELSE Min(OrbitCap, N)
      IN (~sweepLog[a].diverged /\ ~o.escaped) =>
           PointsAt(a) = [i \in 1 .. count |->
                            [a |-> a, x |-> o.states[N + 1 - count + i][1],
                             y |-> o.states[N + 1 - count + i][2]]]

----------------------------------------------------------------------------
\* Bifurcation sweep: configuration

BadConfiguration == dParam <= 0 \/ paramMin > paramMax

\* C16: a sweep configured with dParam <= 0 or paramMin > paramMax is
\* rejected before the sweep loop is entered: the loop body never runs for
\* it, so it has no points and no period-doubling entry, and compute() ends.
C16_BadConfigurationRejected ==
  BadConfiguration =>
    /\ sweepLog = <<>>
    /\ points = <<>>
    /\ periodDoublings = <<>>
    /\ sweepA = paramMin

----------------------------------------------------------------------------
\* Non-finite step results

NonFinite(v) == v = NaN \/ v = Infinity \/ v = -Infinity

\* C17: when the step function returns NaN or +/-Infinity in a coordinate
\* the engine that called it marks the orbit diverged; no NaN or infinite
\* coordinate is in the trailing window, the history or the emitted sweep
\* points, and the sweep emits nothing for that parameter value.
C17_NonFiniteMeansDiverged ==
  /\ (\E i \in 1 .. Len(trail) :
        NonFinite(trail[i][1]) \/ NonFinite(trail[i][2])) => diverged
  /\ \A i \in 1 .. Len(orbit) :
       ~NonFinite(orbit[i].x) /\ ~NonFinite(orbit[i].y)
  /\ \A i \in 1 .. Len(historyX) :
       ~NonFinite(historyX[i]) /\ ~NonFinite(historyY[i])
  /\ \A i \in 1 .. Len(points) :
       ~NonFinite(points[i].x) /\ ~NonFinite(points[i].y)

----------------------------------------------------------------------------
\* Cobweb helpers

\* C18: an exception thrown by the user's function at some x (the compile
\* step only test-calls it at x = 0) does not leave cobwebPath, sampleCurve
\* or invertNumerically: the helper returns a path that ends there, or no
\* solution.
C18_NoExceptionEscapes == ~call.threw

\* the k-th point of a flat array, counted from 1
PointOf(pts, k) == <<pts[2 * k - 1], pts[2 * k]>>

\* C19: the path returned by cobwebPath(f, x0, n) starts with (x0, 0); then
\* points alternate between a vertical move, which keeps the x of the point
\* before and ends on the curve at (x, f(x)), and a horizontal move, which
\* keeps the y of the point before and ends on the diagonal.
C19_VerticalThenHorizontal ==
  (call.op = "cobwebPath" /\ ~call.threw) =>
    /\ Len(call.pts) >= 2 /\ Len(call.pts) % 2 = 0
    /\ PointOf(call.pts, 1) = <<call.args[1], 0>>
    /\ \A k \in 2 .. Len(call.pts) \div 2 :
         LET prev == PointOf(call.pts, k - 1)
             cur == PointOf(call.pts, k)
         IN IF k % 2 = 0
            THEN cur[1] = prev[1] /\ cur[2] = Apply(fn, cur[1]).v
            ELSE cur[2] = prev[2] /\ cur[1] = cur[2]

\* a path of at least two steps whose iterates differ
C19_Witness ==
  /\ call.op = "cobwebPath" /\ ~call.threw
  /\ Len(call.pts) >= 10
  /\ call.pts[4] # call.pts[8] /\ call.pts[4] # call.args[1]

\* the i-th iterate of x under f
RECURSIVE Iterate(_, _, _)
Iterate(f, x, i) == IF i = 0 THEN x ELSE Apply(f, Iterate(f, x, i - 1)).v

\* the number of applications after which the path ends: the index of the
\* first non-finite iterate, n when there is none
PathSteps(f, x0, n) ==
  LET bad == { i \in 1 .. n : ~IsFinite(Iterate(f, x0, i)) }
  IN IF bad = {} THEN n ELSE CHOOSE i \in bad : \A j \in bad : i <= j

\* C20: cobwebPath(f, x0, n) with finite x0 and n >= 0 calls f at most n
\* times and returns at most 1 + 2n points, exactly 1 + 2n when every
\* iterate is finite; otherwise the path ends with the step that produced
\* the first non-finite iterate: f is not called again and nothing follows.
C20_LengthAndTruncation ==
  call.op = "cobwebPath" =>
    LET n == call.args[2]
        steps == PathSteps(fn, call.args[1], n)
    IN /\ call.calls <= n
       /\ ~call.threw =>
            /\ Len(call.pts) <= 2 * (1 + 2 * n)
            /\ call.calls = steps
            /\ Len(call.pts) = 2 * (1 + 2 * steps)
            /\ \A i \in 1 .. Len(call.pts) - 4 : IsFinite(call.pts[i])

\* a path cut short by a non-finite third iterate
C20_Witness ==
  /\ call.op = "cobwebPath" /\ ~call.threw
  /\ call.calls >= 3 /\ call.calls < call.args[2]
  /\ ~IsFinite(call.pts[Len(call.pts)])

----------------------------------------------------------------------------
\* Numerical inversion

\* f(x) - y for the compiled function
Residual(x, y) == Minus(Apply(fn, x).v, y)

\* u and v are numbers of opposite sign
OppositeSigns(u, v) ==
  /\ u # NaN /\ v # NaN
  /\ (u < 0 /\ v > 0) \/ (u > 0 /\ v < 0)

\* C21: invertNumerically(f, y, lo, hi) returns a value v with
\* |f(v) - y| <= tol whenever f(lo) - y and f(hi) - y have opposite signs,
\* and null in every other case.
C21_InverseWithinTolerance ==
  (call.op = "invertNumerically" /\ ~call.threw) =>
    LET y == call.args[1]
        lo == call.args[2]
        hi == call.args[3]
    IN IF OppositeSigns(Residual(lo, y), Residual(hi, y))
       THEN /\ ~call.isNull
            /\ IsFinite(Residual(call.value, y))
            /\ Abs(Residual(call.value, y)) <= InvTol
       ELSE call.isNull

\* f neither throws nor leaves the finite numbers on lo..hi and is monotone
\* there
MonotoneOn(f, lo, hi) ==
  /\ \A x \in lo .. hi : ~Apply(f, x).threw /\ IsFinite(Apply(f, x).v)
  /\ \/ \A x \in lo .. hi - 1 : Apply(f, x).v <= Apply(f, x + 1).v
     \/ \A x \in lo .. hi - 1 : Apply(f, x).v >= Apply(f, x + 1).v

\* the grid cells [a, a + 1] of lo..hi in which f takes the value y
CellsWith(f, y, lo, hi) ==
  { a \in lo .. hi - 1 :
      \/ Apply(f, a).v <= y /\ y <= Apply(f, a + 1).v
      \/ Apply(f, a).v >= y /\ y >= Apply(f, a + 1).v }

\* C27: for C monotone on [xMin, xMax] and y in C's range there, y = C(xMin)
\* and y = C(xMax) included, invertNumerically returns a value within tol
\* of the x with C(x) = y; it returns null only when y is outside the range.
C27_InverseAtRangeEnds ==
  (/\ call.op = "invertNumerically" /\ ~call.threw
   /\ MonotoneOn(fn, call.args[2], call.args[3])) =>
    LET y == call.args[1]
        cells == CellsWith(fn, y, call.args[2], call.args[3])
    IN cells # {} =>
         /\ ~call.isNull
         /\ \E a \in cells :
              /\ call.value >= a - InvTol
              /\ call.value <= a + 1 + InvTol

----------------------------------------------------------------------------
\* Bifurcation sweep: recomputation

\* what one swept value a adds to the points and the table
SweptValue(acc, a) ==
  LET t == TrajLoop([xArr |-> <<ic[1]>>, yArr |-> <<ic[2]>>,
                     diverged |-> FALSE], SweepParams(a), N)
      st == SearchLoop(t.xArr, 0, [found |-> FALSE, period |-> S])
  IN IF t.diverged THEN acc
     ELSE [points |-> EmitPoints(acc.points, a, t.xArr, t.yArr, st.found,
                                 2 ^ st.period),
           periodDoublings |-> RecordDoubling(acc.periodDoublings, st.found,
                                              2 ^ st.period, a)]

\* the sweep of a freshly mounted sketch with the current parameters
RECURSIVE FreshSweep(_, _)
FreshSweep(acc, a) ==
  IF a > paramMax THEN acc ELSE FreshSweep(SweptValue(acc, a), a + dParam)

\* C22: after any sequence of update(overrides) calls the stored points and
\* period-doubling table are those a freshly mounted sweep computes from
\* the current merged parameters; nothing of an earlier sweep survives.
C22_UpdateRecomputesSweep ==
  bifPc = "done" =>
    \E fresh \in {FreshSweep([points |-> <<>>, periodDoublings |-> <<>>],
                             paramMin)} :
      /\ points = fresh.points
      /\ periodDoublings = fresh.periodDoublings

\* a sweep recomputed by an update ended with points and a table entry
C22_Witness ==
  /\ bifPc = "done" /\ lastOp = "update"
  /\ Len(points) > 0 /\ DOMAIN periodDoublings # {}

----------------------------------------------------------------------------
\* Wasm bridge

\* C23: however often init() is called, overlapping calls included, the
\* wasm module is instantiated (initWasm invoked) at most once, and once an
\* init() promise has resolved the module is initialized.
C23_InitInstantiatesOnce ==
  /\ instantiations <= 1
  /\ (\E c \in Components : caller[c] = "resolved") => initialized

----------------------------------------------------------------------------
\* Live engine: iteration budget

\* C24: 0 <= step <= iterates in every state; a tick of a seeded,
\* non-diverged engine with step < iterates raises step by exactly
\* min(speed, iterates - step) when no application of the tick diverges;
\* when one diverges, step counts that application and the rest of the tick
\* is skipped.
C24_TickAdvancesWithinBudget ==
  [][/\ 0 <= curStep' /\ curStep' <= iterates'
     /\ (lastOp' = "draw" /\ ~waiting /\ ~diverged /\ curStep < iterates)
          => /\ Len(trail') = curStep' + 1
             /\ \A i \in Produced : i < Len(trail') => ~Beyond(trail'[i])
             /\ IF diverged'
                THEN /\ curStep' - curStep \in
                          1 .. Min(speed, iterates - curStep)
                     /\ Beyond(trail'[Len(trail')])
                ELSE /\ curStep' = curStep + Min(speed, iterates - curStep)
                     /\ ~Beyond(trail'[Len(trail')])]_vars

\* the budget ended a tick before it had made speed applications
C24_Witness ==
  /\ lastOp = "draw" /\ prevPhase = "running" /\ ~diverged
  /\ curStep = iterates /\ iterates % speed # 0

----------------------------------------------------------------------------
\* Live engine: run completion

Terminal == ~waiting /\ (diverged \/ curStep = iterates)

\* C25: when from some point on only ticks occur on a seeded run (no seed,
\* reset, update or pause), the run eventually reaches a terminal state
\* (diverged, or step = iterates) and stays there; and no tick on a terminal
\* state changes step, current state, trailing window or history.
C25_RunCompletes ==
  /\ (<>[](lastOp = "draw" /\ ~waiting)) => <>[]Terminal
  /\ [][(Terminal /\ lastOp' = "draw")
          => UNCHANGED <<curStep, curX, curY, orbit, historyX, historyY>>]_vars

\* a tick was drawn on a run that had used its whole budget
C25_Witness ==
  /\ lastOp = "draw" /\ prevPhase = "completed"
  /\ curStep = iterates /\ ~diverged

----------------------------------------------------------------------------
\* Live engine: period detection is latched

\* C26: once detectedPeriod is non-null no tick changes detectedPeriod or
\* cyclePoints, whatever the orbit does afterwards; they change only by being
\* cleared, and only seed, reset or update clears them.
C26_DetectionIsLatched ==
  [][/\ (detectedPeriod # NULL /\ lastOp' = "draw")
          => UNCHANGED <<detectedPeriod, cyclePoints>>
     /\ (detectedPeriod # NULL
           /\ <<detectedPeriod, cyclePoints>>' # <<detectedPeriod, cyclePoints>>)
          => /\ lastOp' \in {"seed", "reset", "update"}
             /\ detectedPeriod' = NULL /\ cyclePoints' = <<>>]_vars

\* a tick advanced a run whose latest state is no longer the recorded cycle
C26_Witness ==
  /\ lastOp = "draw" /\ prevPhase = "running"
  /\ detectedPeriod # NULL
  /\ cyclePoints[Len(cyclePoints)].x # historyX[Len(historyX)]

----------------------------------------------------------------------------
\* Live engine: update

\* C28: update(overrides), whatever fields it carries and whatever the
\* engine state, leaves the engine waiting with step = 0, initial condition
\* and current state (0, 0), diverged = false, detectedPeriod = null and
\* empty cyclePoints, trailing window and history.
C28_UpdateResetsRun ==
  lastOp = "update" =>
    /\ waiting /\ curStep = 0 /\ ~diverged
    /\ <<icX, icY>> = <<0, 0>> /\ <<curX, curY>> = <<0, 0>>
    /\ detectedPeriod = NULL /\ cyclePoints = <<>>
    /\ orbit = <<>> /\ historyX = <<>> /\ historyY = <<>>

\* a running orbit was updated
C28_Witness == lastOp = "update" /\ prevPhase = "running" /\ waiting

----------------------------------------------------------------------------
\* Live engine: cycle data

\* the p history entries that end at entry k
HistorySlice(k, p) ==
  [i \in 1 .. p |-> [x |-> historyX[k - p + i], y |-> historyY[k - p + i]]]

\* C29: detectedPeriod = null implies cyclePoints is empty; detectedPeriod =
\* p > 0 implies 1 <= p <= 128, cyclePoints has exactly p entries and they
\* are consecutive entries of the post-transient history, the last p at the
\* moment of detection; getState() returns the content of cyclePoints.
C29_CycleDataConsistent ==
  /\ [](/\ detectedPeriod = NULL => cyclePoints = <<>>
        /\ detectedPeriod # NULL =>
             /\ detectedPeriod \in 1 .. MAX_PERIOD_CHECK
             /\ Len(cyclePoints) = detectedPeriod
             /\ \E k \in detectedPeriod .. Len(historyX) :
                   cyclePoints = HistorySlice(k, detectedPeriod)
        /\ getState.detectedPeriod = detectedPeriod
        /\ getState.cyclePoints = cyclePoints)
  /\ [][(detectedPeriod = NULL /\ detectedPeriod' # NULL)
          => /\ lastOp' = "draw"
             /\ cyclePoints' = HistorySlice(Len(historyX), detectedPeriod)']_vars

\* a tick detected a cycle of two distinct states
C29_Witness ==
  /\ lastOp = "draw"
  /\ detectedPeriod = 2 /\ Len(cyclePoints) = 2
  /\ cyclePoints[1] # cyclePoints[2]

----------------------------------------------------------------------------
\* Live engine: seeding is history-independent and deterministic

\* what the claim compares between two engines
RunView ==
  [step |-> curStep, x |-> curX, y |-> curY, icX |-> icX, icY |-> icY,
   diverged |-> diverged, orbit |-> orbit,
   historyX |-> historyX, historyY |-> historyY,
   detectedPeriod |-> detectedPeriod, cyclePoints |-> cyclePoints]

\* a freshly mounted engine with the current map, parameters, speed, lag and
\* iterates, seeded with (x0, y0)
FreshSeeded(x0, y0) ==
  [step |-> 0, x |-> x0, y |-> y0, icX |-> x0, icY |-> y0,
   diverged |-> FALSE, orbit |-> <<[x |-> x0, y |-> y0]>>,
   historyX |-> <<>>, historyY |-> <<>>,
   detectedPeriod |-> NULL, cyclePoints |-> <<>>]

\* that engine one tick after it showed the view v
FreshTick(v) ==
  LET s0 == [curX |-> v.x, curY |-> v.y, curStep |-> v.step,
             diverged |-> v.diverged, orbit |-> v.orbit,
             historyX |-> v.historyX, historyY |-> v.historyY,
             trail |-> <<>>]
      s == Iterated(s0)
      d == FinalDetect(s, FrameDetect(~v.diverged /\ v.step < iterates, s,
                                      v.detectedPeriod, v.cyclePoints))
  IN [step |-> s.curStep, x |-> s.curX, y |-> s.curY,
      icX |-> v.icX, icY |-> v.icY,
      diverged |-> s.diverged, orbit |-> s.orbit,
      historyX |-> s.historyX, historyY |-> s.historyY,
      detectedPeriod |-> d.detectedPeriod, cyclePoints |-> d.cyclePoints]

\* C30: an engine that has gone through any sequence of seeds, ticks and
\* resets and a freshly mounted one with the same settings agree, after the
\* same seed and the same number of ticks, on step, current state, initial
\* condition, diverged flag, trailing window, history, detectedPeriod and
\* cyclePoints. By induction on the number of ticks: a seed leaves the view
\* of a freshly mounted and seeded engine, and a tick takes equal views to
\* equal views.
C30_SeedingIsHistoryIndependent ==
  [][/\ lastOp' = "seed" => /\ ~waiting'
                            /\ RunView' = FreshSeeded(icX', icY')
     /\ (lastOp' = "draw" /\ ~waiting) => /\ ~waiting'
                                         /\ RunView' = FreshTick(RunView)]_vars

\* an engine whose previous run had used its whole budget was seeded again
C30_Witness ==
  /\ lastOp = "seed" /\ prevPhase = "completed"
  /\ RunView = FreshSeeded(icX, icY)

====
